---- MODULE Spec2Model ----
(***************************************************************************)
(* Book inventory question-to-SQL pipeline: SQLGenerator (main.py) and the *)
(* Streamlit page that drives it (app.py).  Text is modelled as sequences  *)
(* of one-character strings so that str.strip, str.replace and str.split  *)
(* are computed the way Python computes them.                              *)
(***************************************************************************)
EXTENDS Integers, Sequences, FiniteSets, TLC

(* ------------------------------ bounds --------------------------------- *)
\* longest model reply, in fragments, that generate_sql is applied to
MaxFrags == 4
\* page runs of one session, and the distinct questions asked in them
MaxRuns == 3
NumQuestions == 2
\* the same for sessions that fill the query history past what it shows
MaxHistRuns == 7
NumHistQuestions == 6

(* ------------------------------- text ---------------------------------- *)
\* characters str.strip() removes
Whitespace == {" ", "\n", "\t", "\r"}

SELECT == <<"S", "E", "L", "E", "C", "T">>
LabelInst == <<"S", "Q", "L", " ", "Q", "u", "e", "r", "y", ":", "[", "/", "I", "N", "S", "T", "]">>
Label == <<"S", "Q", "L", " ", "Q", "u", "e", "r", "y", ":">>
EscapedUnderscore == <<"\\", "_">>
Underscore == <<"_">>

\* s[i .. i+Len(sub)-1] = sub
MatchAt(s, i, sub) ==
    /\ i + Len(sub) - 1 <= Len(s)
    /\ \A j \in 1..Len(sub) : s[i + j - 1] = sub[j]

\* Python's `sub in s`
Contains(s, sub) == \E i \in 1..(Len(s) + 1) : MatchAt(s, i, sub)

RECURSIVE ReplaceFrom(_, _, _, _)
ReplaceFrom(s, i, old, new) ==
    IF i > Len(s) THEN <<>>
    ELSE IF MatchAt(s, i, old)
         THEN new \o ReplaceFrom(s, i + Len(old), old, new)
         ELSE <<s[i]>> \o ReplaceFrom(s, i + 1, old, new)

\* Python's s.replace(old, new), old non-empty: one left-to-right pass over
\* the non-overlapping occurrences
Replace(s, old, new) == ReplaceFrom(s, 1, old, new)

\* Python's s.strip()
Strip(s) ==
    LET keep == {i \in 1..Len(s) : s[i] \notin Whitespace}
    IN  IF keep = {} THEN <<>>
        ELSE LET lo == CHOOSE i \in keep : \A j \in keep : i <= j
                 hi == CHOOSE i \in keep : \A j \in keep : j <= i
             IN  SubSeq(s, lo, hi)

RECURSIVE SplitFrom(_, _, _)
SplitFrom(s, i, cur) ==
    IF i > Len(s) THEN <<cur>>
    ELSE IF s[i] = "\n"
         THEN <<cur>> \o SplitFrom(s, i + 1, <<>>)
         ELSE SplitFrom(s, i + 1, Append(cur, s[i]))

\* mutant of SplitLines: the separator is one the reply never holds
SplitLinesWrongSeparator(s) == <<s>>

\* Python's s.split('\n')
SplitLines(s) == SplitFrom(s, 1, <<>>)

RECURSIVE Concat(_)
Concat(ss) == IF ss = <<>> THEN <<>> ELSE Head(ss) \o Concat(Tail(ss))

Range(s) == {s[i] : i \in 1..Len(s)}

(* ------------------------ exceptions and outcomes ----------------------- *)
Exc(t, m) == [type |-> t, msg |-> m]
NoExc == Exc("none", <<>>)

\* how a call ends: not yet, with a value, or with an exception
NotCalled == [kind |-> "none", value |-> <<>>, exc |-> NoExc]
Returned(v) == [kind |-> "return", value |-> v, exc |-> NoExc]
Raised(e) == [kind |-> "raise", value |-> <<>>, exc |-> e]

(* ----------------------- SQLGenerator.generate_sql ---------------------- *)
NoValidSqlMessage == <<"N", "o", " ", "v", "a", "l", "i", "d", " ", "S", "Q", "L", " ", "q", "u", "e", "r", "y", " ", "g", "e", "n", "e", "r", "a", "t", "e", "d">>
GenerationErrorPrefix == <<"E", "r", "r", "o", "r", " ", "g", "e", "n", "e", "r", "a", "t", "i", "n", "g", " ", "S", "Q", "L", ":", " ">>

\* lines 108-109: the reply's content, trimmed, with the label artifacts removed
CleanResponse(content) ==
    Strip(Replace(Replace(Strip(content), LabelInst, <<>>), Label, <<>>))

\* line 113: the trimmed lines of the cleaned reply that contain SELECT
SelectLines(clean) ==
    LET lines == SplitLines(clean)
    IN  SelectSeq([i \in 1..Len(lines) |-> Strip(lines[i])], LAMBDA l : Contains(l, SELECT))

\* mutant of FirstSelectLine: [-1] for [0]
LastSelectLine(clean) == SelectLines(clean)[Len(SelectLines(clean))]

\* line 113, the [0]
FirstSelectLine(clean) == SelectLines(clean)[1]

\* line 114
Unescape(query) == Replace(query, EscapedUnderscore, Underscore)

\* line 112
HasSelect(clean) == Contains(clean, SELECT)

\* mutant of ExtractQuery: a reply without SELECT is passed on as the query
ExtractQueryUnvalidated(content) ==
    LET clean == CleanResponse(content)
    IN  IF HasSelect(clean)
        THEN Returned(Unescape(FirstSelectLine(clean)))
        ELSE Returned(Unescape(clean))

\* lines 108-117: the body of the try block once the remote call has returned
ExtractQuery(content) ==
    LET clean == CleanResponse(content)
    IN  IF HasSelect(clean)
        THEN Returned(Unescape(FirstSelectLine(clean)))
        ELSE Raised(Exc("Exception", NoValidSqlMessage))

\* lines 119-120: every exception of the try block is re-raised with the prefix
WrapGenerationError(outcome) ==
    IF outcome.kind = "raise"
    THEN Raised(Exc("Exception", GenerationErrorPrefix \o outcome.exc.msg))
    ELSE outcome

\* what the collaborators of one call do: the prompt render (retrieval)
\* fails, the chat-completion call fails, or the model replies
RemoteReply == [kind |-> "reply", exc |-> NoExc]
RetrievalFails == [kind |-> "render", exc |-> Exc("RuntimeError", <<"i", "n", "d", "e", "x">>)]
TransportFails == [kind |-> "call", exc |-> Exc("APIError", <<"q", "u", "o", "t", "a">>)]

\* lines 96-120
generate_sql(remote, content) ==
    WrapGenerationError(
        IF remote.kind = "reply" THEN ExtractQuery(content) ELSE Raised(remote.exc))

\* the pieces replies are drawn from
Fragments ==
    { SELECT, <<"S", "E">>, <<"L", "E", "C", "T">>, Label, <<"[", "/", "I", "N", "S", "T", "]">>, <<"S", "Q", "L", " ">>, <<"Q", "u", "e", "r", "y", ":">>,
      <<"\\">>, EscapedUnderscore, <<"\n">>, <<" ">>, <<"s", "e", "l", "e", "c", "t">> }

\* the replies a page run can receive
AppReplies == { <<"S", "Q", "L", " ", "Q", "u", "e", "r", "y", ":", " ", "S", "E", "L", "E", "C", "T", " ", "a", "\\", "_", "b">>, <<"s", "o", "r", "r", "y">> }

(* ---------------------- the query history (app.py) ---------------------- *)
HistoryShown == 5

Unbound == [bound |-> FALSE, value |-> <<>>]
Bound(v) == [bound |-> TRUE, value |-> v]

HistoryQuestions(h) == [i \in 1..Len(h) |-> h[i][1]]

\* lines 157-158: ok is FALSE when reading sql_query raises UnboundLocalError
HistoryAppend(h, q, sq) ==
    IF q # 0 /\ q \notin Range(HistoryQuestions(h))
    THEN IF sq.bound
         THEN [ok |-> TRUE, history |-> Append(h, <<q, sq.value>>)]
         ELSE [ok |-> FALSE, history |-> h]
    ELSE [ok |-> TRUE, history |-> h]

\* mutant of HistoryDisplayed: [:5] for [-5:]
HistoryDisplayedFirstFive(h) ==
    LET n == Len(h)
        first == IF n <= HistoryShown THEN h ELSE SubSeq(h, 1, HistoryShown)
    IN  [i \in 1..Len(first) |-> first[Len(first) + 1 - i]]

\* line 161: reversed(query_history[-5:])
HistoryDisplayed(h) ==
    LET n == Len(h)
        last == IF n <= HistoryShown THEN h ELSE SubSeq(h, n - HistoryShown + 1, n)
    IN  [i \in 1..Len(last) |-> last[Len(last) + 1 - i]]

\* the questions of a session in most-recently-asked-first order
MoveToFront(a, q) ==
    IF q = 0 THEN a ELSE <<q>> \o SelectSeq(a, LAMBDA x : x # q)

(* --------------------- SQLGenerator.execute_sql_query ------------------- *)
DatabaseErrorPrefix == <<"D", "a", "t", "a", "b", "a", "s", "e", " ", "E", "r", "r", "o", "r", ":", " ">>
DbMessages == { <<"1", "0", "6", "4">>, <<"2", "0", "1", "3">> }

None == [type |-> "None", columns |-> FALSE, rows |-> 0]
DataFrame(cols, n) == [type |-> "DataFrame", columns |-> cols, rows |-> n]

(* ------------------------------- app.py --------------------------------- *)
MissingKeyMessage == <<"O", "p", "e", "n", "A", "I", " ", "A", "P", "I", " ", "k", "e", "y", " ", "n", "o", "t", " ", "f", "o", "u", "n", "d", " ", "i", "n", " ", "e", "n", "v", "i", "r", "o", "n", "m", "e", "n", "t", " ", "v", "a", "r", "i", "a", "b", "l", "e", "s">>
EmbeddingsErrorPrefix == <<"E", "r", "r", "o", "r", " ", "i", "n", "i", "t", "i", "a", "l", "i", "z", "i", "n", "g", " ", "e", "m", "b", "e", "d", "d", "i", "n", "g", "s", ":", " ">>
InitErrorPrefix == <<"E", "r", "r", "o", "r", " ", "i", "n", "i", "t", "i", "a", "l", "i", "z", "i", "n", "g", " ", "a", "p", "p", "l", "i", "c", "a", "t", "i", "o", "n", ":", " ">>
\* line 126; the icon that leads the text is left out
UiErrorPrefix == <<"E", "r", "r", "o", "r", ":", " ">>

VARIABLES
    sql_generator,   \* 'sql_generator' in st.session_state
    query_history,   \* st.session_state.query_history, <<question, sql>> pairs
    api_key,         \* os.getenv('OPENAI_API_KEY') as the last initialization read it
    embeddings_ok,   \* whether the embedding model could be loaded then
    pc,              \* position of the page run
    question,        \* the text input of the run, 0 for the empty string
    response,        \* content of the model's reply
    gen,             \* how generate_sql ended
    sql_query,       \* the local of main()
    connection,      \* the local of execute_sql_query and the link's state
    cursor,
    stmt,            \* what the executed statement produced
    exec,            \* the completion of execute_sql_query, in flight or final
    dbError,         \* message of the mysql.connector.Error the driver raised
    uiError,         \* text of the st.error shown by the run
    runEnd,          \* how the last page run ended
    trace,           \* pipeline steps the run has started, in order
    constructions,   \* SQLGenerator constructions begun in the session
    asked,           \* questions handled so far, most recent first
    runs

sessionVars == <<sql_generator, query_history, api_key, embeddings_ok, constructions, asked, runs>>
genVars == <<response, gen, sql_query>>
execVars == <<connection, cursor, stmt, exec, dbError>>
runVars == <<pc, question, uiError, runEnd, trace>>
vars == <<sessionVars, genVars, execVars, runVars>>

ApiKeys == {"unset", "empty", "sk"}

FreshFrame ==
    /\ connection = "unbound"
    /\ cursor = "unbound"
    /\ stmt = [description |-> FALSE, rows |-> 0]
    /\ exec = NotCalled
    /\ dbError = <<>>

FreshRun ==
    /\ response = <<>>
    /\ gen = NotCalled
    /\ sql_query = Unbound
    /\ uiError = <<>>
    /\ trace = <<>>
    /\ FreshFrame

Init ==
    /\ sql_generator = FALSE
    /\ query_history = <<>>
    /\ api_key = "unset"
    /\ embeddings_ok = FALSE
    /\ constructions = 0
    /\ asked = <<>>
    /\ runs = 0
    /\ pc = "idle"
    /\ question = 0
    /\ runEnd = "none"
    /\ FreshRun

(* ----------------------------- a page run ------------------------------- *)
ResetFrame ==
    /\ connection' = "unbound"
    /\ cursor' = "unbound"
    /\ stmt' = [description |-> FALSE, rows |-> 0]
    /\ exec' = NotCalled
    /\ dbError' = <<>>

ResetRun ==
    /\ response' = <<>>
    /\ gen' = NotCalled
    /\ sql_query' = Unbound
    /\ uiError' = <<>>
    /\ trace' = <<>>
    /\ ResetFrame

\* app.py 33-41: Streamlit runs main() from the top for a user interaction
StartRun ==
    /\ pc = "idle"
    /\ runs < MaxRuns
    /\ runs' = runs + 1
    /\ \E q \in 0..NumQuestions : question' = q
    /\ ResetRun
    /\ runEnd' = "running"
    /\ pc' = IF sql_generator THEN "question" ELSE "init"
    /\ UNCHANGED <<sql_generator, query_history, api_key, embeddings_ok, constructions, asked>>

\* app.py 17-19: `not api_key`
KeyMissing(k) == k # "sk"

\* app.py 41-45 with 11-27 and main.py 27-62: the generator is built and stored
InitializeOk ==
    /\ pc = "init"
    /\ api_key' = "sk"
    /\ embeddings_ok' = TRUE
    /\ constructions' = constructions + 1
    /\ sql_generator' = TRUE
    /\ pc' = "question"
    /\ UNCHANGED <<query_history, asked, runs, genVars, execVars, question, uiError, runEnd, trace>>

\* mutant of InitializeFails: the error is shown and the run goes on
InitializeFailsNoStop ==
    /\ pc = "init"
    /\ \E k \in ApiKeys, e \in BOOLEAN :
        /\ KeyMissing(k) \/ ~e
        /\ api_key' = k
        /\ embeddings_ok' = e
        /\ constructions' = IF KeyMissing(k) THEN constructions ELSE constructions + 1
        /\ uiError' = InitErrorPrefix \o MissingKeyMessage
    /\ pc' = "question"
    /\ UNCHANGED <<sql_generator, query_history, asked, runs, genVars, execVars, question, runEnd, trace>>

\* app.py 17-19, 29-31, 46-48 and main.py 64-65: the error is shown and
\* st.stop() ends the run
InitializeFails ==
    /\ pc = "init"
    /\ \E k \in ApiKeys, e \in BOOLEAN :
        /\ KeyMissing(k) \/ ~e
        /\ api_key' = k
        /\ embeddings_ok' = e
        /\ IF KeyMissing(k)
           THEN /\ constructions' = constructions
                /\ uiError' = InitErrorPrefix \o MissingKeyMessage
           ELSE /\ constructions' = constructions + 1
                /\ uiError' = InitErrorPrefix \o EmbeddingsErrorPrefix \o <<"m", "o", "d", "e", "l">>
    /\ runEnd' = "stopped"
    /\ pc' = "idle"
    /\ UNCHANGED <<sql_generator, query_history, asked, runs, genVars, execVars, question, trace>>

\* app.py 88-95
Submit ==
    /\ pc = "question"
    /\ asked' = MoveToFront(asked, question)
    /\ pc' = IF question = 0 THEN "history" ELSE "render"
    /\ UNCHANGED <<sql_generator, query_history, api_key, embeddings_ok, constructions, runs,
                   genVars, execVars, question, uiError, runEnd, trace>>

\* app.py 125-126
ShowError(e) == uiError' = UiErrorPrefix \o e.msg

\* main.py 98: the prompt is rendered, the examples retrieved
RenderOk ==
    /\ pc = "render"
    /\ trace' = Append(trace, "render")
    /\ pc' = "call"
    /\ UNCHANGED <<sessionVars, genVars, execVars, question, uiError, runEnd>>

\* main.py 98, 119-120 and app.py 125-126
RenderFails ==
    /\ pc = "render"
    /\ trace' = Append(trace, "render")
    /\ gen' = generate_sql(RetrievalFails, <<>>)
    /\ ShowError(gen'.exc)
    /\ pc' = "history"
    /\ UNCHANGED <<sessionVars, response, sql_query, execVars, question, runEnd>>

\* main.py 99-117 and app.py 99-104, 125-126: the model replies
CallReplies ==
    /\ pc = "call"
    /\ trace' = Append(trace, "call")
    /\ \E r \in AppReplies :
        /\ response' = r
        /\ gen' = generate_sql(RemoteReply, r)
    /\ IF gen'.kind = "return"
       THEN /\ sql_query' = Bound(gen'.value)
            /\ pc' = "connect"
            /\ UNCHANGED uiError
       ELSE /\ ShowError(gen'.exc)
            /\ pc' = "history"
            /\ UNCHANGED sql_query
    /\ UNCHANGED <<sessionVars, execVars, question, runEnd>>

\* mutant of CallFails: the failed remote call is made again
CallFailsRetry ==
    /\ pc = "call"
    /\ trace' = Append(trace, "call")
    /\ gen' = generate_sql(TransportFails, <<>>)
    /\ pc' = "call"
    /\ UNCHANGED <<sessionVars, response, sql_query, execVars, question, uiError, runEnd>>

\* main.py 99-105, 119-120 and app.py 125-126: the remote call fails
CallFails ==
    /\ pc = "call"
    /\ trace' = Append(trace, "call")
    /\ gen' = generate_sql(TransportFails, <<>>)
    /\ ShowError(gen'.exc)
    /\ pc' = "history"
    /\ UNCHANGED <<sessionVars, response, sql_query, execVars, question, runEnd>>

(* ------------------- execute_sql_query, step by step -------------------- *)
\* main.py 131: connect() returns a connection
ConnectOk ==
    /\ pc = "connect"
    /\ trace' = Append(trace, "execute")
    /\ connection' = "connected"
    /\ pc' = "check"
    /\ UNCHANGED <<sessionVars, genVars, cursor, stmt, exec, dbError, question, uiError, runEnd>>

\* main.py 131: connect() raises, `connection` stays unassigned
ConnectRaises ==
    /\ pc = "connect"
    /\ trace' = Append(trace, "execute")
    /\ \/ \E m \in DbMessages :
            /\ exec' = Raised(Exc("Error", m))
            /\ dbError' = m
            /\ pc' = "except"
       \/ /\ exec' = Raised(Exc("TypeError", <<"a", "r", "g", "u", "m", "e", "n", "t">>))
          /\ pc' = "finally"
          /\ UNCHANGED dbError
    /\ UNCHANGED <<sessionVars, genVars, connection, cursor, stmt, question, uiError, runEnd>>

\* main.py 132: is_connected() pings the server; when it answers no, the
\* function falls through to the end without a return statement
CheckConnected ==
    /\ pc = "check"
    /\ \E alive \in BOOLEAN :
        IF alive
        THEN /\ pc' = "cursor"
             /\ UNCHANGED <<connection, exec>>
        ELSE /\ connection' = "lost"
             /\ exec' = Returned(None)
             /\ pc' = "finally"
    /\ UNCHANGED <<sessionVars, genVars, cursor, stmt, dbError, question, uiError, runEnd, trace>>

\* main.py 133-135: the driver call at hand returns
DriverOk ==
    /\ pc \in {"cursor", "execute", "fetchall"}
    /\ CASE pc = "cursor" ->
              /\ cursor' = "open"
              /\ pc' = "execute"
              /\ UNCHANGED stmt
         [] pc = "execute" ->
              /\ \E d \in BOOLEAN, n \in 0..1 : stmt' = [description |-> d, rows |-> IF d THEN n ELSE 0]
              /\ pc' = "fetchall"
              /\ UNCHANGED cursor
         [] pc = "fetchall" ->
              /\ pc' = "frame"
              /\ UNCHANGED <<cursor, stmt>>
    /\ UNCHANGED <<sessionVars, genVars, connection, exec, dbError, question, uiError, runEnd, trace>>

\* main.py 133-135: the driver call at hand raises; the link may be gone
DriverRaises ==
    /\ pc \in {"cursor", "execute", "fetchall"}
    /\ \E up \in BOOLEAN : connection' = IF up THEN connection ELSE "lost"
    /\ \/ \E m \in DbMessages :
            /\ exec' = Raised(Exc("Error", m))
            /\ dbError' = m
            /\ pc' = "except"
       \/ /\ exec' = Raised(Exc("TypeError", <<"a", "r", "g", "u", "m", "e", "n", "t">>))
          /\ pc' = "finally"
          /\ UNCHANGED dbError
    /\ UNCHANGED <<sessionVars, genVars, cursor, stmt, question, uiError, runEnd, trace>>

\* main.py 138-141: the return statements
BuildFrame ==
    /\ pc = "frame"
    /\ exec' = Returned(DataFrame(stmt.description, stmt.rows))
    /\ pc' = "finally"
    /\ UNCHANGED <<sessionVars, genVars, connection, cursor, stmt, dbError, question, uiError, runEnd, trace>>

\* main.py 143-144
Except ==
    /\ pc = "except"
    /\ exec' = Raised(Exc("Exception", DatabaseErrorPrefix \o exec.exc.msg))
    /\ pc' = "finally"
    /\ UNCHANGED <<sessionVars, genVars, connection, cursor, stmt, dbError, question, uiError, runEnd, trace>>

\* main.py 147: 'connection' in locals() and connection.is_connected()
MustRelease == connection = "connected"

\* main.py 145-149: an exception raised in the finally block replaces the
\* completion in flight
Finally ==
    /\ pc = "finally"
    /\ IF MustRelease
       THEN IF cursor = "unbound"
            THEN /\ exec' = Raised(Exc("UnboundLocalError", <<"c", "u", "r", "s", "o", "r">>))
                 /\ UNCHANGED <<connection, cursor>>
            ELSE /\ cursor' = "closed"
                 /\ connection' = "closed"
                 /\ UNCHANGED exec
       ELSE UNCHANGED <<connection, cursor, exec>>
    /\ pc' = "show"
    /\ UNCHANGED <<sessionVars, genVars, stmt, dbError, question, uiError, runEnd, trace>>

\* app.py 108-126: the result or the error is displayed
Show ==
    /\ pc = "show"
    /\ IF exec.kind = "raise" THEN ShowError(exec.exc) ELSE UNCHANGED uiError
    /\ pc' = "history"
    /\ UNCHANGED <<sessionVars, genVars, execVars, question, runEnd, trace>>

\* app.py 153-166; an UnboundLocalError here is not handled by main()
History ==
    /\ pc = "history"
    /\ LET r == HistoryAppend(query_history, question, sql_query)
       IN  /\ query_history' = r.history
           /\ runEnd' = IF r.ok THEN "completed" ELSE "unhandled"
    /\ pc' = "idle"
    /\ UNCHANGED <<sql_generator, api_key, embeddings_ok, constructions, asked, runs,
                   genVars, execVars, question, uiError, trace>>

Next ==
    \/ StartRun
    \/ InitializeOk
    \/ InitializeFails
    \/ Submit
    \/ RenderOk
    \/ RenderFails
    \/ CallReplies
    \/ CallFails
    \/ ConnectOk
    \/ ConnectRaises
    \/ CheckConnected
    \/ DriverOk
    \/ DriverRaises
    \/ BuildFrame
    \/ Except
    \/ Finally
    \/ Show
    \/ History

Spec == Init /\ [][Next]_vars

TypeOK ==
    /\ sql_generator \in BOOLEAN
    /\ pc \in {"idle", "init", "question", "render", "call", "connect", "check", "cursor",
               "execute", "fetchall", "frame", "except", "finally", "show", "history"}
    /\ question \in Nat
    /\ gen.kind \in {"none", "return", "raise"}
    /\ exec.kind \in {"none", "return", "raise"}
    /\ connection \in {"unbound", "connected", "lost", "closed"}
    /\ cursor \in {"unbound", "open", "closed"}
    /\ runEnd \in {"none", "running", "completed", "stopped", "unhandled"}
    /\ runs \in Nat
    /\ constructions \in Nat
    /\ sql_query.bound \in BOOLEAN

(* ------------- generate_sql over every reply of up to MaxFrags ---------- *)
\* the rest of the state is that of a session between page runs
GenInit ==
    /\ \E n \in 0..MaxFrags : \E fs \in [1..n -> Fragments] : response = Concat(fs)
    /\ sql_generator = TRUE
    /\ query_history = <<>>
    /\ api_key = "sk"
    /\ embeddings_ok = TRUE
    /\ constructions = 1
    /\ asked = <<>>
    /\ runs = 0
    /\ pc = "idle"
    /\ question = 0
    /\ runEnd = "none"
    /\ gen = NotCalled
    /\ sql_query = Unbound
    /\ uiError = <<>>
    /\ trace = <<>>
    /\ FreshFrame

\* main.py 96-120 for a call whose remote side replied with `response`
Generate ==
    /\ gen.kind = "none"
    /\ gen' = generate_sql(RemoteReply, response)
    /\ UNCHANGED <<sessionVars, response, sql_query, execVars, runVars>>

GenNext == Generate

SpecGen == GenInit /\ [][GenNext]_vars

(* ------------------ the query history over many page runs --------------- *)
\* a session whose generator is initialised
HistInit ==
    /\ sql_generator = TRUE
    /\ query_history = <<>>
    /\ api_key = "sk"
    /\ embeddings_ok = TRUE
    /\ constructions = 1
    /\ asked = <<>>
    /\ runs = 0
    /\ pc = "idle"
    /\ question = 0
    /\ runEnd = "none"
    /\ FreshRun

\* one page run of main() from top to bottom (app.py 33-166).  Questions are
\* compared for equality only, so the k-th new question of a session is named
\* k.  The database round trip changes nothing the history reads and is left
\* at its outcome-free state.
PageRun ==
    /\ pc = "idle"
    /\ runs < MaxHistRuns
    /\ runs' = runs + 1
    /\ \E q \in 0..NumHistQuestions, remote \in {RemoteReply, TransportFails}, r \in AppReplies :
        /\ q <= Len(asked) + 1
        /\ remote.kind = "reply" \/ r = CHOOSE x \in AppReplies : TRUE
        /\ LET g == IF q = 0 THEN NotCalled ELSE generate_sql(remote, r)
               sq == IF g.kind = "return" THEN Bound(g.value) ELSE Unbound
               h == HistoryAppend(query_history, q, sq)
           IN  /\ question' = q
               /\ response' = IF q = 0 \/ remote.kind # "reply" THEN <<>> ELSE r
               /\ gen' = g
               /\ sql_query' = sq
               /\ uiError' = IF g.kind = "raise" THEN UiErrorPrefix \o g.exc.msg ELSE <<>>
               /\ query_history' = h.history
               /\ runEnd' = IF h.ok THEN "completed" ELSE "unhandled"
               /\ asked' = MoveToFront(asked, q)
    /\ UNCHANGED <<sql_generator, api_key, embeddings_ok, constructions, execVars, pc, trace>>

HistNext == PageRun

SpecHist == HistInit /\ [][HistNext]_vars

(* ======================= properties of generate_sql ===================== *)
Generated == gen.kind = "return"

\* the reply with the two label forms removed, one pass each
LabelsRemoved(r) == Replace(Replace(r, LabelInst, <<>>), Label, <<>>)

SomeLineHasSelect(r) == \E i \in 1..Len(SplitLines(r)) : Contains(SplitLines(r)[i], SELECT)

FirstLineWithSelect(r) ==
    LET lines == SplitLines(r)
        k == CHOOSE i \in 1..Len(lines) :
                 /\ Contains(lines[i], SELECT)
                 /\ \A j \in 1..(i - 1) : ~Contains(lines[j], SELECT)
    IN  lines[k]

FailsWithNoValidSql ==
    /\ gen.kind = "raise"
    /\ gen.value = <<>>
    /\ Contains(gen.exc.msg, NoValidSqlMessage)

\* a label directly preceded by the first 1 to 9 characters of a label
NestedLabel(r) == \E j \in 1..(Len(Label) - 1) : Contains(r, SubSeq(Label, 1, j) \o Label)

DoubleEscape == <<"\\", "\\", "_">>

\* C4 as claimed: a reply none of whose lines contains SELECT makes
\* generate_sql fail with 'No valid SQL query generated'; any other reply
\* makes it return a query.
C4_AsClaimed ==
    gen.kind # "none" =>
        IF SomeLineHasSelect(response) THEN Generated ELSE FailsWithNoValidSql

\* C4 amended: the lines are judged after the 'SQL Query:[/INST]' and
\* 'SQL Query:' labels have been removed from the reply: no line with SELECT
\* then, and generate_sql fails with 'No valid SQL query generated' and
\* returns nothing; some line with SELECT then, and it returns a query.
C4_FailsIffNoSelectAfterLabelRemoval ==
    gen.kind # "none" =>
        IF SomeLineHasSelect(LabelsRemoved(response)) THEN Generated ELSE FailsWithNoValidSql

\* C4 witness: a reply holding a label and a lower-case select only was refused
C4_Witness ==
    /\ FailsWithNoValidSql
    /\ Contains(response, Label)
    /\ Contains(response, <<"s", "e", "l", "e", "c", "t">>)

\* C5 as claimed: the query is the first line of the reply that contains
\* SELECT, labels removed, backslash-underscore unescaped, trimmed, and it
\* holds no label and no backslash-underscore any more.
C5_AsClaimed ==
    Generated =>
        /\ SomeLineHasSelect(response)
        /\ gen.value = Strip(Replace(LabelsRemoved(FirstLineWithSelect(response)),
                                     EscapedUnderscore, Underscore))
        /\ ~Contains(gen.value, Label)
        /\ ~Contains(gen.value, EscapedUnderscore)

\* C5 amended: the query is the first line that contains SELECT once the
\* labels have been removed in one pass each, with one pass of unescaping,
\* trimmed; a label remains in it only if the reply held a label directly
\* after the beginning of another, a backslash-underscore only if the reply
\* with its labels removed held backslash-backslash-underscore.
C5_FirstSelectLineOfStrippedReply ==
    Generated =>
        /\ SomeLineHasSelect(LabelsRemoved(response))
        /\ gen.value = Strip(Replace(FirstLineWithSelect(LabelsRemoved(response)),
                                     EscapedUnderscore, Underscore))
        /\ gen.value = Strip(gen.value)
        /\ Contains(gen.value, Label) => NestedLabel(response)
        /\ Contains(gen.value, EscapedUnderscore) => Contains(LabelsRemoved(response), DoubleEscape)

\* C5 witness: of two SELECT lines the first was returned, unescaped
C5_Witness ==
    /\ Generated
    /\ Len(SelectLines(CleanResponse(response))) = 2
    /\ SelectLines(CleanResponse(response))[1] # SelectLines(CleanResponse(response))[2]
    /\ Contains(response, EscapedUnderscore)
    /\ ~Contains(gen.value, EscapedUnderscore)

\* C10 as claimed: a returned query has no line break and begins with SELECT.
C10_AsClaimed ==
    Generated =>
        /\ ~Contains(gen.value, <<"\n">>)
        /\ MatchAt(gen.value, 1, SELECT)

\* C10 amended: a returned query has no line feed and contains the token
\* SELECT, at its start or anywhere after it.
C10_SingleLineContainingSelect ==
    Generated =>
        /\ ~Contains(gen.value, <<"\n">>)
        /\ Contains(gen.value, SELECT)

\* C10 witness: a query cut out of a reply of several lines that does not
\* begin with SELECT
C10_Witness ==
    /\ Generated
    /\ Contains(response, <<"\n">>)
    /\ ~MatchAt(gen.value, 1, SELECT)

(* ==================== properties of execute_sql_query =================== *)
\* execute_sql_query has exited and its caller holds the outcome
Exited == pc = "show"

\* C1 as claimed: when execute_sql_query exits, the connection it opened is
\* no longer connected, whatever the exit path.
C1_AsClaimed == Exited => connection # "connected"

\* C2 as claimed: execute_sql_query ends either by returning a DataFrame or
\* by raising, never by returning without one.
C2_AsClaimed ==
    Exited => \/ exec.kind = "raise"
              \/ exec.kind = "return" /\ exec.value.type = "DataFrame"

\* C3 as claimed: when the driver raised a database error, the caller gets
\* Exception('Database Error: <message>') and nothing else.
C3_AsClaimed ==
    (Exited /\ dbError # <<>>) =>
        exec = Raised(Exc("Exception", DatabaseErrorPrefix \o dbError))

(* ======================== properties of a page run ====================== *)
IsPrefix(a, b) == Len(a) <= Len(b) /\ \A i \in 1..Len(a) : a[i] = b[i]

RunOver == pc = "idle" /\ runEnd \in {"completed", "unhandled", "stopped"}

\* C6: the steps a run takes for its question are a beginning of render,
\* remote call, database execution, each once and in this order; a failed
\* generation is followed by neither another call nor an execution.
C6_PipelineOncePerQuestion ==
    /\ IsPrefix(trace, <<"render", "call", "execute">>)
    /\ "execute" \in Range(trace) => gen.kind = "return"
    /\ gen.kind = "raise" => /\ exec.kind = "none"
                             /\ connection = "unbound"
                             /\ pc \in {"history", "idle"}
    /\ pc \in {"call", "connect"} => trace # <<>>

\* C6 witness: a run whose remote call failed ended after that one call
C6_Witness ==
    /\ RunOver
    /\ trace = <<"render", "call">>
    /\ gen.kind = "raise"
    /\ response = <<>>

\* C7 as claimed: a run whose generation or execution failed shows the error
\* and completes, the history update included.
C7_AsClaimed ==
    (RunOver /\ runEnd # "stopped" /\ (gen.kind = "raise" \/ exec.kind = "raise")) =>
        /\ uiError # <<>>
        /\ runEnd = "completed"

PipelinePcs == {"render", "call", "connect", "check", "cursor", "execute", "fetchall",
                "frame", "except", "finally", "show"}

\* C9: a failed initialization stores no generator and stops the run; the
\* pipeline runs only with a stored generator; a stored generator stays and
\* nothing is constructed again.
C9_InitializationFatalAndOnce ==
    [][ /\ (pc = "init" /\ (KeyMissing(api_key') \/ ~embeddings_ok')) =>
               /\ ~sql_generator'
               /\ pc' = "idle"
               /\ runEnd' = "stopped"
        /\ (pc' \in PipelinePcs \/ gen'.kind # "none" \/ exec'.kind # "none") => sql_generator'
        /\ sql_generator => /\ sql_generator'
                            /\ constructions' = constructions ]_vars

\* C9 witness: after a failed construction and a successful one, a later
\* run generates a query with the stored generator
C9_Witness ==
    /\ constructions = 2
    /\ sql_generator
    /\ runs = 3
    /\ gen.kind = "return"

(* ===================== properties of the query history ================== *)
FirstN(a, n) == IF Len(a) <= n THEN a ELSE SubSeq(a, 1, n)

\* C8 as claimed, in the sessions where every question asked so far has been
\* recorded (no run is left broken off by a failed generation): the history
\* shows at most 5 entries, the most recently asked distinct questions, most
\* recent first, none twice.
C8_AsClaimed ==
    Len(asked) = Len(query_history) =>
        LET shown == HistoryQuestions(HistoryDisplayed(query_history))
        IN  /\ Len(shown) <= HistoryShown
            /\ shown = FirstN(asked, HistoryShown)
            /\ \A i, j \in 1..Len(shown) : i # j => shown[i] # shown[j]

\* C8 amended: the history shows at most 5 entries, the last recorded ones,
\* latest first, none twice; a question is recorded, once and at the end,
\* by the first run that generates a query for it, and asking it again
\* changes nothing.
C8_ShownAreLastRecorded ==
    /\ [](LET h == query_history
              n == Len(h)
              shown == HistoryDisplayed(h)
          IN  /\ Len(shown) = IF n <= HistoryShown THEN n ELSE HistoryShown
              /\ \A i \in 1..Len(shown) : shown[i] = h[n + 1 - i]
              /\ \A i, j \in 1..n : i # j => h[i][1] # h[j][1]
              /\ Range(HistoryQuestions(h)) \subseteq Range(asked))
    /\ [][ query_history' =
             IF /\ question' # 0
                /\ question' \notin Range(HistoryQuestions(query_history))
                /\ gen'.kind = "return"
             THEN Append(query_history, <<question', gen'.value>>)
             ELSE query_history ]_vars

\* C8 witness: six questions are recorded and an older one was asked again
C8_Witness ==
    /\ Len(query_history) > HistoryShown
    /\ asked[1] # query_history[Len(query_history)][1]
    /\ runEnd = "completed"

====
